---- MODULE Spec2Model ----
(***************************************************************************)
(* A model of angr/sim_type.py: the SimType class hierarchy (size,         *)
(* equality, architecture binding, struct layout), the constant folder     *)
(* _parse_const, the declaration resolver _decl_to_type with its entry     *)
(* points parse_type and parse_file, and the registry ALL_TYPES with       *)
(* define_struct, register_types and make_preamble.                        *)
(*                                                                         *)
(* Python objects live in a heap: a sequence of records, an object's       *)
(* identity being its index.  A reference is an index, 0 never being one.  *)
(* An optional value (None or v) is a sequence of length at most one.      *)
(* A call's outcome is a record holding the value returned or the class of *)
(* the exception raised.  The source is Python 2: / on integers is floor   *)
(* division and objects of unrelated types can be ordered.                 *)
(*                                                                         *)
(* Left out: the label and offset attributes, which no modelled call sets; *)
(* the classes SimTypeReg, SimTypeFd, SimTypeFloat, SimTypeDouble,         *)
(* SimTypeBool and SimTypeLongLong, whose size and equality are those of   *)
(* SimTypeChar or SimTypeInt; extract, store and the memory views.  Of the *)
(* registry the entries named in BuiltinNames are kept.  The parser is     *)
(* pycparser: of it the model keeps the trees it builds and that it        *)
(* rejects a text using as a type a name no earlier typedef declares.  The *)
(* preprocessor is left out, no text of the model holding a directive.     *)
(***************************************************************************)
EXTENDS Integers, Sequences, FiniteSets, TLC

VARIABLES heap, ALL_TYPES, last, nops, input

vars == <<heap, ALL_TYPES, last, nops, input>>

-----------------------------------------------------------------------------
(* Bounds of the model.                                                    *)

\* frames a recursive method may nest before the interpreter raises
\* RuntimeError (maximum recursion depth exceeded)
RecursionLimit == 6
\* calls made on the type objects in one behaviour
MaxOps == 2
\* largest integer literal of a constant expression
MaxLit == 4
\* largest number of parameters of a function declarator
MaxParams == 2
\* largest number of fields of a generated struct declaration
MaxFields == 2

-----------------------------------------------------------------------------
(* The architecture descriptor consumed by the size properties.            *)

NoArch == "None"
Archs == {"X86", "AMD64"}

ArchBits(a) == IF a = "AMD64" THEN 64 ELSE 32

ArchSizeof(a, base) ==
    CASE base = "short"     -> 16
      [] base = "int"       -> 32
      [] base = "long"      -> IF a = "AMD64" THEN 64 ELSE 32

-----------------------------------------------------------------------------
(* Objects.                                                                *)

None == <<>>
Some(v) == <<v>>

\* the classes whose size is an entry of the architecture's sizeof table
IntClasses == {"SimTypeInt", "SimTypeShort", "SimTypeLong"}

\* SimType.__init__ and the class attributes _arch = None, _size = None
SimType(cls) ==
    [cls |-> cls, _arch |-> NoArch, _size |-> None, signed |-> FALSE,
     pts_to |-> 0, elem_type |-> 0, length |-> None, fields |-> <<>>,
     members |-> <<>>, args |-> <<>>, args_is_list |-> FALSE, returnty |-> 0,
     _name |-> ""]

SimTypeBottom == SimType("SimTypeBottom")
SimTypeTop(size) == [SimType("SimTypeTop") EXCEPT !._size = size]
SimTypeNum(size, signed) ==
    [SimType("SimTypeNum") EXCEPT !._size = Some(size), !.signed = signed]
SimTypeInt(cls, signed) == [SimType(cls) EXCEPT !.signed = signed]
SimTypeChar == [SimType("SimTypeChar") EXCEPT !._size = Some(8)]
SimTypePointer(pts_to) == [SimType("SimTypePointer") EXCEPT !.pts_to = pts_to]
SimTypeFixedSizeArray(elem_type, length) ==
    [SimType("SimTypeFixedSizeArray") EXCEPT
        !.elem_type = elem_type, !.length = Some(length)]
SimTypeArray(elem_type, length) ==
    [SimType("SimTypeArray") EXCEPT !.elem_type = elem_type, !.length = length]
\* SimTypeString.__init__ makes its own SimTypeChar element; elem is its index
SimTypeString(elem, length) ==
    [SimType("SimTypeString") EXCEPT !.elem_type = elem, !.length = length]
SimTypeFunction(args, is_list, returnty) ==
    [SimType("SimTypeFunction") EXCEPT
        !.args = args, !.args_is_list = is_list, !.returnty = returnty]
SimTypeLength(signed) == [SimType("SimTypeLength") EXCEPT !.signed = signed]
\* name is None for an anonymous struct
SimStruct(fields, name) ==
    [SimType("SimStruct") EXCEPT
        !.fields = fields,
        !._name = IF name = None THEN "<anon>" ELSE name[1]]
SimUnion(members) == [SimType("SimUnion") EXCEPT !.members = members]

_base_name(cls) ==
    CASE cls = "SimTypeInt"      -> "int"
      [] cls = "SimTypeShort"    -> "short"
      [] cls = "SimTypeLong"     -> "long"
      [] cls = "SimTypeLength"   -> "long"

Ids(h) == 1..Len(h)

-----------------------------------------------------------------------------
(* Outcomes.                                                               *)

\* an integer
IntV(n) == [k |-> "int", n |-> n]
\* the NotImplemented singleton
NotImplementedV == [k |-> "NotImplemented", n |-> 0]
\* an exception of class cls
Raise(cls) == [k |-> cls, n |-> 0]

IsInt(v) == v.k = "int"
IsRaise(v) == v.k \notin {"int", "NotImplemented"}

-----------------------------------------------------------------------------
(* The size property of every class.                                       *)

RECURSIVE size(_, _, _)
RECURSIVE StructSum(_, _, _, _, _)
RECURSIVE UnionMax(_, _, _, _, _)

\* sum(val.size for val in self.fields.itervalues()), from field k on
StructSum(h, fs, k, acc, depth) ==
    IF k > Len(fs) THEN IntV(acc)
    ELSE LET s == size(h, fs[k][2], depth + 1)
         IN  CASE IsRaise(s) -> s
               [] s.k = "NotImplemented" -> Raise("TypeError")
               [] OTHER -> StructSum(h, fs, k + 1, acc + s.n, depth)

\* max(ty.size for ty in self.members.itervalues()), from member k on;
\* Python 2 orders every integer below NotImplemented
UnionMax(h, ms, k, acc, depth) ==
    IF k > Len(ms) THEN acc
    ELSE LET s == size(h, ms[k][2], depth + 1)
         IN  CASE IsRaise(s) -> s
               [] s.k = "NotImplemented" \/ acc.k = "NotImplemented" ->
                    UnionMax(h, ms, k + 1, NotImplementedV, depth)
               [] OTHER ->
                    UnionMax(h, ms, k + 1,
                             IF s.n > acc.n THEN s ELSE acc, depth)

SimType_size(o) == IF o._size # None THEN IntV(o._size[1]) ELSE NotImplementedV

SimTypeInt_size(o) ==
    IF o._arch = NoArch THEN Raise("ValueError")
    ELSE IntV(ArchSizeof(o._arch, _base_name(o.cls)))

SimTypePointer_size(o) ==
    IF o._arch = NoArch THEN Raise("ValueError") ELSE IntV(ArchBits(o._arch))

\* the size an array would have if its length scaled the pointer width
SimTypeArray_size_Scaled(o) ==
    IF o._arch = NoArch THEN Raise("ValueError")
    ELSE IntV(ArchBits(o._arch) * (IF o.length = None THEN 1 ELSE o.length[1]))

SimTypeArray_size(o) ==
    IF o._arch = NoArch THEN Raise("ValueError") ELSE IntV(ArchBits(o._arch))

SimTypeLength_size(o) ==
    IF o._arch = NoArch THEN Raise("ValueError") ELSE IntV(ArchBits(o._arch))

SimTypeString_size(o) ==
    IF o.length = None THEN IntV(4096) ELSE IntV(o.length[1] + 1)

SimTypeFunction_size(o) == IntV(4096)

SimTypeFixedSizeArray_size(h, o, depth) ==
    LET s == size(h, o.elem_type, depth + 1)
    IN  CASE IsRaise(s) -> s
          [] s.k = "NotImplemented" -> Raise("TypeError")
          [] OTHER -> IntV(s.n * o.length[1])

SimStruct_size(h, o, depth) == StructSum(h, o.fields, 1, 0, depth)

SimUnion_size(h, o, depth) ==
    IF o.members = <<>> THEN Raise("ValueError")
    ELSE LET s == size(h, o.members[1][2], depth + 1)
         IN  IF IsRaise(s) THEN s ELSE UnionMax(h, o.members, 2, s, depth)

\* the size property of object i, evaluated depth frames down
size(h, i, depth) ==
    IF depth > RecursionLimit THEN Raise("RuntimeError")
    ELSE LET o == h[i]
         IN  CASE o.cls \in IntClasses -> SimTypeInt_size(o)
               [] o.cls = "SimTypeLength" -> SimTypeLength_size(o)
               [] o.cls = "SimTypePointer" -> SimTypePointer_size(o)
               [] o.cls = "SimTypeArray" -> SimTypeArray_size(o)
               [] o.cls = "SimTypeString" -> SimTypeString_size(o)
               [] o.cls = "SimTypeFunction" -> SimTypeFunction_size(o)
               [] o.cls = "SimTypeFixedSizeArray" ->
                    SimTypeFixedSizeArray_size(h, o, depth)
               [] o.cls = "SimStruct" -> SimStruct_size(h, o, depth)
               [] o.cls = "SimUnion" -> SimUnion_size(h, o, depth)
               [] OTHER -> SimType_size(o)

Size(h, i) == size(h, i, 1)

-----------------------------------------------------------------------------
(* SimStruct.offsets.                                                      *)

\* a field's share of the running sum if it were counted in bits
ByteCount_Bits(bits) == bits

\* ty.size / 8: the bytes a field of the given bit size advances the offset
ByteCount(bits) == bits \div 8

RECURSIVE OffsetScan(_, _, _, _, _)

\* the loop of offsets, from field k on: out is the mapping built so far, in
\* field order, and offset_so_far the running sum
OffsetScan(h, fs, k, offset_so_far, out) ==
    IF k > Len(fs) THEN [exc |-> "", map |-> out]
    ELSE LET s == Size(h, fs[k][2])
         IN  CASE IsRaise(s) -> [exc |-> s.k, map |-> <<>>]
               [] s.k = "NotImplemented" -> [exc |-> "TypeError", map |-> <<>>]
               [] OTHER ->
                    OffsetScan(h, fs, k + 1, offset_so_far + ByteCount(s.n),
                               Append(out, <<fs[k][1], offset_so_far>>))

offsets(h, i) == OffsetScan(h, h[i].fields, 1, 0, <<>>)

-----------------------------------------------------------------------------
(* SimType.__eq__.  A comparison's outcome is "True", "False" or the class *)
(* of the exception it raises.                                             *)

\* the class attribute _fields
_fields(cls) ==
    CASE cls \in {"SimTypeTop", "SimTypeChar"} -> <<"size">>
      [] cls = "SimTypeNum" -> <<"signed", "size">>
      [] cls \in IntClasses -> <<"size", "signed">>
      [] cls = "SimTypePointer" -> <<"size", "pts_to">>
      [] cls = "SimTypeArray" -> <<"elem_type", "length">>
      [] cls = "SimTypeString" -> <<"elem_type", "length", "length">>
      [] cls = "SimTypeFunction" -> <<"args", "returnty">>
      [] cls = "SimTypeLength" -> <<"signed", "size", "addr", "length">>
      [] cls = "SimStruct" -> <<"name", "fields">>
      [] OTHER -> <<>>

Not(b) == CASE b = "True" -> "False" [] b = "False" -> "True" [] OTHER -> b
Bool(b) == IF b THEN "True" ELSE "False"

RECURSIVE __eq__(_, _, _, _)
RECURSIVE FieldsDiffer(_, _, _, _, _, _)
RECURSIVE ItemsEqual(_, _, _, _, _, _)

\* PyObject_RichCompareBool(a, b, Py_EQ), which containers apply to their
\* items: identical objects are equal without __eq__ being called
RichCompareBool(h, a, b, depth) ==
    IF a = b THEN "True" ELSE __eq__(h, a, b, depth + 1)

\* equality of two sequences of pairs <<name, reference>> of one length, from
\* item k on: the names, then the objects
ItemsEqual(h, xs, ys, k, depth, names) ==
    IF k > Len(xs) THEN "True"
    ELSE IF names /\ xs[k][1] # ys[k][1] THEN "False"
    ELSE LET e == RichCompareBool(h, xs[k][2], ys[k][2], depth)
         IN  IF e # "True" THEN e
             ELSE ItemsEqual(h, xs, ys, k + 1, depth, names)

AsItems(refs) == [k \in 1..Len(refs) |-> <<"", refs[k]>>]

\* getattr(self, attr) != getattr(other, attr)
AttrDiffers(h, attr, i, j, depth) ==
    CASE attr = "size" ->
           LET a == size(h, i, depth + 1)
               b == size(h, j, depth + 1)
           IN  (CASE IsRaise(a) -> a.k
                  [] IsRaise(b) -> b.k
                  [] OTHER -> Bool(a # b))
      [] attr = "signed" -> Bool(h[i].signed # h[j].signed)
      [] attr = "pts_to" -> Not(__eq__(h, h[i].pts_to, h[j].pts_to, depth + 1))
      [] attr = "elem_type" ->
           Not(__eq__(h, h[i].elem_type, h[j].elem_type, depth + 1))
      [] attr = "returnty" ->
           Not(__eq__(h, h[i].returnty, h[j].returnty, depth + 1))
      [] attr = "length" -> Bool(h[i].length # h[j].length)
      [] attr = "name" -> Bool(h[i]._name # h[j]._name)
      \* a tuple never equals a list; sequences of one kind are compared by
      \* length, then item by item
      [] attr = "args" ->
           IF h[i].args_is_list # h[j].args_is_list
              \/ Len(h[i].args) # Len(h[j].args)
           THEN "True"
           ELSE Not(ItemsEqual(h, AsItems(h[i].args), AsItems(h[j].args), 1,
                               depth, FALSE))
      \* OrderedDict: same length, same names in the same order, equal values
      [] attr = "fields" ->
           IF Len(h[i].fields) # Len(h[j].fields) THEN "True"
           ELSE Not(ItemsEqual(h, h[i].fields, h[j].fields, 1, depth, TRUE))
      \* addr is None in every SimTypeLength the model makes
      [] OTHER -> "False"

\* the loop of __eq__ over self._fields, from attribute k on: "True" when
\* some attribute differs
FieldsDiffer(h, fs, k, i, j, depth) ==
    IF k > Len(fs) THEN "False"
    ELSE LET d == AttrDiffers(h, fs[k], i, j, depth)
         IN  IF d # "False" THEN d
             ELSE FieldsDiffer(h, fs, k + 1, i, j, depth)

\* self == other for the objects i and j, depth frames down
__eq__(h, i, j, depth) ==
    IF depth > RecursionLimit THEN "RuntimeError"
    ELSE IF h[i].cls # h[j].cls THEN "False"
    ELSE Not(FieldsDiffer(h, _fields(h[i].cls), 1, i, j, depth))

Eq(h, i, j) == __eq__(h, i, j, 1)

-----------------------------------------------------------------------------
(* with_arch.                                                              *)

Alloc(h, o) == Append(h, o)

RECURSIVE with_arch(_, _, _, _)
RECURSIVE BindAll(_, _, _, _, _, _)

\* v.with_arch(arch) for the references refs[k..], in order; out collects the
\* references returned
BindAll(h, refs, k, arch, depth, out) ==
    IF k > Len(refs) THEN [heap |-> h, refs |-> out, exc |-> ""]
    ELSE LET r == with_arch(h, refs[k], arch, depth + 1)
         IN  IF r.exc # "" THEN [heap |-> r.heap, refs |-> <<>>, exc |-> r.exc]
             ELSE BindAll(r.heap, refs, k + 1, arch, depth, Append(out, r.ret))

Refs(pairs) == [k \in 1..Len(pairs) |-> pairs[k][2]]
Rebind(pairs, refs) == [k \in 1..Len(pairs) |-> <<pairs[k][1], refs[k]>>]

\* a binding that set _arch on the object itself instead of on a copy
SimType_with_arch_InPlace(h, i, arch) ==
    [heap |-> [h EXCEPT ![i]._arch = arch], ret |-> i, exc |-> ""]

\* SimType._with_arch: copy.copy(self) with _arch set on the copy
SimType_with_arch(h, i, arch) ==
    [heap |-> Alloc(h, [h[i] EXCEPT !._arch = arch]),
     ret |-> Len(h) + 1, exc |-> ""]

SimTypePointer_with_arch(h, i, arch, depth) ==
    LET r == with_arch(h, h[i].pts_to, arch, depth + 1)
    IN  IF r.exc # "" THEN r
        ELSE [heap |-> Alloc(r.heap,
                  [SimTypePointer(r.ret) EXCEPT !._arch = arch]),
              ret |-> Len(r.heap) + 1, exc |-> ""]

SimTypeFixedSizeArray_with_arch(h, i, arch, depth) ==
    LET r == with_arch(h, h[i].elem_type, arch, depth + 1)
    IN  IF r.exc # "" THEN r
        ELSE [heap |-> Alloc(r.heap,
                  [SimTypeFixedSizeArray(r.ret, h[i].length[1])
                      EXCEPT !._arch = arch]),
              ret |-> Len(r.heap) + 1, exc |-> ""]

SimTypeArray_with_arch(h, i, arch, depth) ==
    LET r == with_arch(h, h[i].elem_type, arch, depth + 1)
    IN  IF r.exc # "" THEN r
        ELSE [heap |-> Alloc(r.heap,
                  [SimTypeArray(r.ret, h[i].length) EXCEPT !._arch = arch]),
              ret |-> Len(r.heap) + 1, exc |-> ""]

SimTypeString_with_arch(h, i, arch) == [heap |-> h, ret |-> i, exc |-> ""]

SimTypeFunction_with_arch(h, i, arch, depth) ==
    LET ra == BindAll(h, h[i].args, 1, arch, depth, <<>>)
    IN  IF ra.exc # "" THEN [heap |-> ra.heap, ret |-> 0, exc |-> ra.exc]
        ELSE LET rr == with_arch(ra.heap, h[i].returnty, arch, depth + 1)
             IN  IF rr.exc # "" THEN rr
                 ELSE [heap |-> Alloc(rr.heap,
                           [SimTypeFunction(ra.refs, TRUE, rr.ret)
                               EXCEPT !._arch = arch]),
                       ret |-> Len(rr.heap) + 1, exc |-> ""]

SimStruct_with_arch(h, i, arch, depth) ==
    LET r == BindAll(h, Refs(h[i].fields), 1, arch, depth, <<>>)
    IN  IF r.exc # "" THEN [heap |-> r.heap, ret |-> 0, exc |-> r.exc]
        ELSE [heap |-> Alloc(r.heap,
                  [SimStruct(Rebind(h[i].fields, r.refs), Some(h[i]._name))
                      EXCEPT !._arch = arch]),
              ret |-> Len(r.heap) + 1, exc |-> ""]

SimUnion_with_arch(h, i, arch, depth) ==
    LET r == BindAll(h, Refs(h[i].members), 1, arch, depth, <<>>)
    IN  IF r.exc # "" THEN [heap |-> r.heap, ret |-> 0, exc |-> r.exc]
        ELSE [heap |-> Alloc(r.heap,
                  [SimUnion(Rebind(h[i].members, r.refs))
                      EXCEPT !._arch = arch]),
              ret |-> Len(r.heap) + 1, exc |-> ""]

\* self.with_arch(arch) on object i, depth frames down
with_arch(h, i, arch, depth) ==
    IF depth > RecursionLimit
    THEN [heap |-> h, ret |-> 0, exc |-> "RuntimeError"]
    ELSE IF h[i]._arch # NoArch /\ h[i]._arch = arch
    THEN [heap |-> h, ret |-> i, exc |-> ""]
    ELSE CASE h[i].cls = "SimTypePointer" ->
                SimTypePointer_with_arch(h, i, arch, depth)
           [] h[i].cls = "SimTypeFixedSizeArray" ->
                SimTypeFixedSizeArray_with_arch(h, i, arch, depth)
           [] h[i].cls = "SimTypeArray" ->
                SimTypeArray_with_arch(h, i, arch, depth)
           [] h[i].cls = "SimTypeString" -> SimTypeString_with_arch(h, i, arch)
           [] h[i].cls = "SimTypeFunction" ->
                SimTypeFunction_with_arch(h, i, arch, depth)
           [] h[i].cls = "SimStruct" -> SimStruct_with_arch(h, i, arch, depth)
           [] h[i].cls = "SimUnion" -> SimUnion_with_arch(h, i, arch, depth)
           [] OTHER -> SimType_with_arch(h, i, arch)

-----------------------------------------------------------------------------
(* The syntax trees pycparser hands to the resolver.  Every node has the   *)
(* same shape: its class k, a name, an integer and its children.           *)

Node(k, name, val, kids) == [k |-> k, name |-> name, val |-> val, kids |-> kids]

\* Python's None where a node is expected
NoNode == Node("None", "", 0, <<>>)
\* no text is waiting to be handed to a call
Consumed == Node("", "", 0, <<>>)

\* names is the node's list of words
IdentifierType(names) == Node("IdentifierType", "", 0,
                              [k \in 1..Len(names) |-> Node("name", names[k], 0, <<>>)])
TypeDecl(type) == Node("TypeDecl", "", 0, <<type>>)
PtrDecl(type) == Node("PtrDecl", "", 0, <<type>>)
ArrayDecl(type, dim) == Node("ArrayDecl", "", 0, <<type, dim>>)
\* a field of a struct or union, or a named parameter
Decl(name, type) == Node("Decl", name, 0, <<type>>)
\* an unnamed parameter
Typename(type) == Node("Typename", "", 0, <<type>>)
\* val = 1 when decls is a list, 0 when it is None; name = "" when name is None
Struct(name, hasDecls, decls) == Node("Struct", name, IF hasDecls THEN 1 ELSE 0, decls)
Union(name, hasDecls, decls) == Node("Union", name, IF hasDecls THEN 1 ELSE 0, decls)
\* val = 1 when args is a ParamList, 0 when it is None; the first child is
\* the return declarator, the others are args.params
FuncDecl(hasArgs, params, type) ==
    Node("FuncDecl", "", IF hasArgs THEN 1 ELSE 0, <<type>> \o params)
\* a literal: name is the form of its text (dec, hex, float, char), val the
\* number the text denotes
Constant(form, val) == Node("Constant", form, val, <<>>)
BinaryOp(op, left, right) == Node("BinaryOp", op, 0, <<left, right>>)
UnaryOp(op, expr) == Node("UnaryOp", op, 0, <<expr>>)
ID(name) == Node("ID", name, 0, <<>>)
FuncCall(name) == Node("FuncCall", name, 0, <<>>)

\* a type name of one word, and of several
Ident(name) == TypeDecl(IdentifierType(<<name>>))
Words(ws) == TypeDecl(IdentifierType(ws))
\* a struct tag without a body
StructRef(tag) == TypeDecl(Struct(tag, FALSE, <<>>))

-----------------------------------------------------------------------------
(* _parse_const.                                                           *)

\* int(c.value): only a decimal text converts
int(c) == IF c.name = "dec" THEN [exc |-> "", n |-> c.val]
          ELSE [exc |-> "ValueError", n |-> 0]

RECURSIVE _parse_const(_)

_parse_const(c) ==
    CASE c.k = "Constant" -> int(c)
      [] c.k = "BinaryOp" ->
           IF c.name \notin {"+", "-", "*", "/"}
           THEN [exc |-> "ValueError", n |-> 0]
           ELSE LET x == _parse_const(c.kids[1])
                    y == _parse_const(c.kids[2])
                IN  (CASE x.exc # "" -> x
                       [] y.exc # "" -> y
                       [] c.name = "+" -> [exc |-> "", n |-> x.n + y.n]
                       [] c.name = "-" -> [exc |-> "", n |-> x.n - y.n]
                       [] c.name = "*" -> [exc |-> "", n |-> x.n * y.n]
                       [] c.name = "/" ->
                            IF y.n = 0
                            THEN [exc |-> "ZeroDivisionError", n |-> 0]
                            ELSE [exc |-> "", n |-> x.n \div y.n])
      [] OTHER -> [exc |-> "ValueError", n |-> 0]

-----------------------------------------------------------------------------
(* _decl_to_type.                                                          *)

\* a Python dict as a function; d[k] = v
EmptyDict == [x \in {} |-> 0]
Put(d, k, v) == [x \in DOMAIN d \cup {k} |-> IF x = k THEN v ELSE d[x]]

\* fields[name] = ref on an ordered mapping kept as a sequence of pairs: a
\* name already present keeps its place
SetItem(pairs, name, ref) ==
    IF \E k \in 1..Len(pairs) : pairs[k][1] = name
    THEN [k \in 1..Len(pairs) |->
             IF pairs[k][1] = name THEN <<name, ref>> ELSE pairs[k]]
    ELSE Append(pairs, <<name, ref>>)

RECURSIVE Join(_)
\* ' '.join(names)
Join(names) ==
    IF Len(names) = 1 THEN names[1].name
    ELSE names[1].name \o " " \o Join(Tail(names))

\* the characters of the strings that reach ' '.join as an unknown key; any
\* other key of the model is a single character
Chars(key) ==
    CASE key = "foo" -> <<"f", "o", "o">>
      [] key = "long double" ->
           <<"l", "o", "n", "g", " ", "d", "o", "u", "b", "l", "e">>
      [] OTHER -> <<key>>

RECURSIVE JoinChars(_)
\* ' '.join(key) on a string: its characters with a space between them
JoinChars(cs) ==
    IF Len(cs) = 1 THEN cs[1] ELSE cs[1] \o " " \o JoinChars(Tail(cs))

\* TypeError("Unknown type '%s'" % ' '.join(key))
TypeError(key) == "TypeError: Unknown type '" \o JoinChars(Chars(key)) \o "'"

\* the outcome of a resolution: the heap and scope it leaves, the reference
\* returned or the exception raised, and whether a warning was logged
Resolved(h, et, ret, warned) ==
    [heap |-> h, et |-> et, ret |-> ret, exc |-> "", warned |-> warned]
Failed(h, et, exc, warned) ==
    [heap |-> h, et |-> et, ret |-> 0, exc |-> exc, warned |-> warned]

\* a lookup that ignored the scope
StructInScope_Fresh(et, key, fresh) == fresh

\* the struct a Struct node with a tag stands for: the one in scope under
\* key if there is one, else the fresh one
StructInScope(et, key, fresh) == IF key \in DOMAIN et THEN et[key] ELSE fresh

\* the scope after the Struct node has been looked up
ScopeWithStruct(et, key, fresh) ==
    IF key \in DOMAIN et THEN et ELSE Put(et, key, fresh)

\* the dimension of an ArrayDecl: _parse_const(decl.dim), 0 on ValueError
ArrayDim(dim) ==
    LET c == _parse_const(dim)
    IN  CASE c.exc = "" -> [exc |-> "", n |-> c.n, warned |-> FALSE]
          [] c.exc = "ValueError" -> [exc |-> "", n |-> 0, warned |-> TRUE]
          [] OTHER -> [exc |-> c.exc, n |-> 0, warned |-> FALSE]

\* the nodes whose types become the arguments of a FuncDecl
FuncParams(decl) == IF decl.val = 0 THEN <<>> ELSE Tail(decl.kids)

RECURSIVE _decl_to_type(_, _, _, _)
RECURSIVE ResolveEach(_, _, _, _, _, _, _)
RECURSIVE ResolveFields(_, _, _, _, _, _, _)

\* [_decl_to_type(x.type, extra_types) for x in xs], from xs[k] on
ResolveEach(h, reg, et, xs, k, out, warned) ==
    IF k > Len(xs)
    THEN [heap |-> h, et |-> et, refs |-> out, exc |-> "", warned |-> warned]
    ELSE LET r == _decl_to_type(h, reg, et, xs[k].kids[1])
         IN  IF r.exc # ""
             THEN [heap |-> r.heap, et |-> r.et, refs |-> <<>>, exc |-> r.exc,
                   warned |-> warned \/ r.warned]
             ELSE ResolveEach(r.heap, reg, r.et, xs, k + 1,
                              Append(out, <<xs[k].name, r.ret>>),
                              warned \/ r.warned)

\* struct.fields[field.name] = _decl_to_type(field.type, extra_types) for the
\* fields decls[k..] of the struct object at index struct
ResolveFields(h, reg, et, struct, decls, k, warned) ==
    IF k > Len(decls) THEN Resolved(h, et, struct, warned)
    ELSE LET r == _decl_to_type(h, reg, et, decls[k].kids[1])
         IN  IF r.exc # "" THEN Failed(r.heap, r.et, r.exc, warned \/ r.warned)
             ELSE ResolveFields(
                      [r.heap EXCEPT ![struct].fields =
                          SetItem(@, decls[k].name, r.ret)],
                      reg, r.et, struct, decls, k + 1, warned \/ r.warned)

\* a dict built from pairs: the last value of a name wins
RECURSIVE DictOf(_, _)
DictOf(pairs, out) ==
    IF pairs = <<>> THEN out
    ELSE DictOf(Tail(pairs), SetItem(out, pairs[1][1], pairs[1][2]))

_decl_to_type(h, reg, et, decl) ==
    CASE decl.k = "FuncDecl" ->
           LET a == ResolveEach(h, reg, et, FuncParams(decl), 1, <<>>, FALSE)
           IN  IF a.exc # "" THEN Failed(a.heap, a.et, a.exc, a.warned)
               ELSE LET r == _decl_to_type(a.heap, reg, a.et, decl.kids[1])
                    IN  IF r.exc # ""
                        THEN Failed(r.heap, r.et, r.exc, a.warned \/ r.warned)
                        ELSE Resolved(
                                 Alloc(r.heap,
                                       SimTypeFunction(Refs(a.refs),
                                                       decl.val = 1, r.ret)),
                                 r.et, Len(r.heap) + 1, a.warned \/ r.warned)
      [] decl.k = "TypeDecl" -> _decl_to_type(h, reg, et, decl.kids[1])
      [] decl.k = "PtrDecl" ->
           LET r == _decl_to_type(h, reg, et, decl.kids[1])
           IN  IF r.exc # "" THEN r
               ELSE Resolved(Alloc(r.heap, SimTypePointer(r.ret)), r.et,
                             Len(r.heap) + 1, r.warned)
      [] decl.k = "ArrayDecl" ->
           LET r == _decl_to_type(h, reg, et, decl.kids[1])
               d == ArrayDim(decl.kids[2])
           IN  (CASE r.exc # "" -> r
                  [] d.exc # "" -> Failed(r.heap, r.et, d.exc, r.warned)
                  [] OTHER ->
                       Resolved(Alloc(r.heap, SimTypeFixedSizeArray(r.ret, d.n)),
                                r.et, Len(r.heap) + 1, r.warned \/ d.warned))
      [] decl.k = "Struct" ->
           LET fresh == Len(h) + 1
               h1 == Alloc(h, SimStruct(<<>>, IF decl.name = "" THEN None
                                               ELSE Some(decl.name)))
               key == "struct " \o decl.name
               struct == IF decl.name # "" THEN StructInScope(et, key, fresh)
                         ELSE fresh
               et1 == IF decl.name # "" THEN ScopeWithStruct(et, key, fresh)
                      ELSE et
           IN  IF decl.val = 1
               THEN ResolveFields(h1, reg, et1, struct, decl.kids, 1, FALSE)
               ELSE Resolved(h1, et1, struct, FALSE)
      [] decl.k = "Union" ->
           LET m == ResolveEach(h, reg, et, decl.kids, 1, <<>>, FALSE)
           IN  IF m.exc # "" THEN Failed(m.heap, m.et, m.exc, m.warned)
               ELSE Resolved(Alloc(m.heap, SimUnion(DictOf(m.refs, <<>>))),
                             m.et, Len(m.heap) + 1, m.warned)
      [] decl.k = "IdentifierType" ->
           LET key == Join(decl.kids)
           IN  (CASE key \in DOMAIN et -> Resolved(h, et, et[key], FALSE)
                  [] key \in DOMAIN reg -> Resolved(h, et, reg[key], FALSE)
                  [] OTHER -> Failed(h, et, TypeError(key), FALSE))
      [] OTHER -> Failed(h, et, "ValueError", FALSE)

\* parse_type on a text whose last top-level node is a Typedef of type decl
parse_type(h, reg, decl) == _decl_to_type(h, reg, EmptyDict, decl)

-----------------------------------------------------------------------------
(* Texts.  A text is the sequence of its top-level declarations as         *)
(* pycparser builds them: Typedef, Decl and FuncDef nodes carrying a name  *)
(* and a declarator.  A declaration that names nothing, as the text        *)
(* 'int *' does, has the name "".                                          *)

Typedef(name, type) == Node("Typedef", name, 0, <<type>>)
\* name and type are those of the definition's decl
FuncDef(name, type) == Node("FuncDef", name, 0, <<type>>)

\* the words the lexer knows as type specifiers without a typedef
Keywords ==
    {"char", "short", "int", "long", "void", "unsigned", "signed", "float",
     "double"}

\* the names of BASIC_TYPES among the registry entries the model keeps
BASIC_TYPES == {"char", "unsigned short", "int", "long", "unsigned long", "void"}

\* ' ' in ty, for the names of the model
HasSpace(ty) == ty \in {"unsigned short", "unsigned long", "long double"}

RECURSIVE __repr__(_, _)
\* the declarator that str(h[i]), written where a type is expected, parses
\* to; NoNode when it is no type the parser accepts
__repr__(h, i) ==
    LET o == h[i]
    IN  CASE o.cls = "SimTypeChar" -> Ident("char")
          [] o.cls = "SimTypeNum" /\ o._size = Some(16) ->
               Ident(IF o.signed THEN "int16_t" ELSE "uint16_t")
          [] o.cls \in IntClasses /\ o._arch = NoArch ->
               IF o.signed THEN Ident(_base_name(o.cls))
               ELSE Words(<<"unsigned", _base_name(o.cls)>>)
          [] o.cls = "SimTypeLength" -> Ident("size_t")
          [] o.cls = "SimTypePointer" ->
               LET t == __repr__(h, o.pts_to)
               IN  IF t = NoNode THEN NoNode ELSE PtrDecl(t)
          [] o.cls = "SimStruct" /\ o._name # "<anon>" -> StructRef(o._name)
          [] OTHER -> NoNode

\* the type of the typedef line make_preamble writes for the object i
PreambleType(h, i) ==
    LET o == h[i]
        isInt == o.cls \in IntClasses \cup {"SimTypeNum", "SimTypeLength"}
        inBasic == o.cls \in IntClasses /\ o._arch = NoArch
        styp == CASE o._size = Some(8) -> <<"char">>
                  [] o._size = Some(16) -> <<"short">>
                  [] o._size = Some(32) -> <<"int">>
                  [] o._size = Some(64) -> <<"long", "long">>
                  [] OTHER -> <<"long">>
    IN  IF isInt /\ ~inBasic
        THEN Words(IF o.signed THEN styp ELSE <<"unsigned">> \o styp)
        ELSE __repr__(h, i)

RECURSIVE InOrder(_)
\* the elements of a set in the order a loop meets them
InOrder(S) ==
    IF S = {} THEN <<>>
    ELSE LET x == CHOOSE x \in S : TRUE IN <<x>> \o InOrder(S \ {x})

\* make_preamble(): the typedefs its text parses to, one for each name it
\* does not skip
make_preamble(h, reg) ==
    LET kept == {ty \in DOMAIN reg :
                    /\ ty \notin BASIC_TYPES
                    /\ ~HasSpace(ty)
                    /\ h[reg[ty]].cls \notin {"SimTypeFunction", "SimTypeString"}}
        names == InOrder(kept)
    IN  [k \in 1..Len(names) |-> Typedef(names[k], PreambleType(h, reg[names[k]]))]

RECURSIVE Known(_, _)
\* every identifier used as a type in the declarator is a keyword or one of
\* names, and no part of it is unparsable
Known(n, names) ==
    CASE n = NoNode -> FALSE
      [] n.k = "IdentifierType" ->
           \/ \A k \in 1..Len(n.kids) : n.kids[k].name \in Keywords
           \/ Len(n.kids) = 1 /\ n.kids[1].name \in names
      [] n.k = "ArrayDecl" -> Known(n.kids[1], names)
      [] OTHER -> \A k \in 1..Len(n.kids) : Known(n.kids[k], names)

\* CParser().parse accepts the declarations: each uses as type names only
\* keywords and the typedef names declared before it
Parses(ext) ==
    \A k \in 1..Len(ext) :
        Known(ext[k].kids[1],
              {ext[j].name : j \in {j \in 1..(k - 1) : ext[j].k = "Typedef"}})

\* 'typedef ' + defn + ' QQQQ;': the first declaration of the text becomes a
\* typedef and the last one declares QQQQ
Wrap(defn) ==
    [k \in 1..Len(defn) |->
        LET name == IF k = Len(defn) THEN "QQQQ" ELSE defn[k].name
        IN  IF k = 1 \/ defn[k].k = "Typedef"
            THEN Typedef(name, defn[k].kids[1])
            ELSE Decl(name, defn[k].kids[1])]

\* parse_type(defn) on a text
parse_type_text(h, reg, defn) ==
    LET ext == make_preamble(h, reg) \o Wrap(defn)
    IN  CASE ~Parses(ext) -> Failed(h, EmptyDict, "ParseError", FALSE)
          [] ext[Len(ext)].k # "Typedef" ->
               Failed(h, EmptyDict, "ValueError", FALSE)
          [] OTHER -> parse_type(h, reg, ext[Len(ext)].kids[1])

RECURSIVE Pieces(_, _, _, _, _, _)
\* the loop of parse_file over node.ext from ext[k] on
Pieces(h, reg, ext, k, out, et) ==
    IF k > Len(ext)
    THEN [heap |-> h, ret |-> <<out, et>>, exc |-> ""]
    ELSE LET piece == ext[k]
             r == _decl_to_type(h, reg, et, piece.kids[1])
         IN  CASE r.exc # "" -> [heap |-> r.heap, ret |-> <<>>, exc |-> r.exc]
               [] piece.k = "FuncDef" ->
                    Pieces(r.heap, reg, ext, k + 1, Put(out, piece.name, r.ret), r.et)
               [] piece.k = "Decl" ->
                    Pieces(r.heap, reg, ext, k + 1,
                           IF piece.name # "" THEN Put(out, piece.name, r.ret)
                           ELSE out,
                           r.et)
               [] piece.k = "Typedef" ->
                    Pieces(r.heap, reg, ext, k + 1, out,
                           Put(r.et, piece.name, r.ret))

\* parse_file(defn) on a text
parse_file(h, reg, defn) ==
    LET ext == make_preamble(h, reg) \o defn
    IN  IF ~Parses(ext) THEN [heap |-> h, ret |-> <<>>, exc |-> "ParseError"]
        ELSE Pieces(h, reg, ext, 1, EmptyDict, EmptyDict)

-----------------------------------------------------------------------------
(* define_struct.                                                          *)

\* define_struct on the text of the struct declaration decl
define_struct(h, reg, decl) ==
    LET r == parse_type_text(h, reg, <<Decl("", decl)>>)
    IN  [heap |-> r.heap, ret |-> r.ret, exc |-> r.exc,
         ALL_TYPES |-> IF r.exc = "" THEN Put(reg, r.heap[r.ret]._name, r.ret)
                       ELSE reg]

-----------------------------------------------------------------------------
(* The state after the module is imported.                                 *)

\* the entries of BASIC_TYPES and ALL_TYPES the model keeps, in the order
\* their objects are made; SimTypeString makes its SimTypeChar first
BuiltinNames ==
    <<"char", "unsigned short", "int", "long", "void",
      "uint16_t", "size_t", "", "string", "unsigned long">>
BuiltinObjects ==
    <<SimTypeChar, SimTypeInt("SimTypeShort", FALSE),
      SimTypeInt("SimTypeInt", TRUE), SimTypeInt("SimTypeLong", TRUE),
      SimTypeBottom,
      SimTypeNum(16, FALSE), SimTypeLength(FALSE), SimTypeChar,
      SimTypeString(8, None), SimTypeInt("SimTypeLong", FALSE)>>
BuiltinTypes ==
    [n \in {BuiltinNames[k] : k \in DOMAIN BuiltinNames} \ {""} |->
        CHOOSE k \in DOMAIN BuiltinNames : BuiltinNames[k] = n]

\* struct example { int foo; int bar; char *hello; };
ExampleDecl ==
    TypeDecl(Struct("example", TRUE,
        <<Decl("foo", Ident("int")), Decl("bar", Ident("int")),
          Decl("hello", PtrDecl(Ident("char")))>>))

Imported == define_struct(BuiltinObjects, BuiltinTypes, ExampleDecl)

NoCall == [op |-> "import", decl |-> NoNode, target |-> 0, arch |-> NoArch,
           ret |-> 0, exc |-> "", warned |-> FALSE]

Init ==
    /\ heap = Imported.heap
    /\ ALL_TYPES = Imported.ALL_TYPES
    /\ last = NoCall
    /\ nops = 0
    /\ input = Consumed

-----------------------------------------------------------------------------
(* The inputs.                                                             *)

\* sequences of length 1..n over the set S
RECURSIVE SeqsUpTo(_, _)
SeqsUpTo(S, n) ==
    IF n = 0 THEN {}
    ELSE LET shorter == SeqsUpTo(S, n - 1)
         IN  {<<x>> : x \in S} \cup shorter
             \cup {Append(q, x) : q \in shorter, x \in S}

\* constant expressions: literals, other leaves, and operator trees of
\* depth at most two
Literals == {Constant("dec", n) : n \in 0..MaxLit}
OtherLeaves ==
    {Constant("hex", 16), Constant("float", 1), ID("n"), FuncCall("foo"),
     UnaryOp("-", Constant("dec", 1)), NoNode}
Operators == {"+", "-", "*", "/", "%"}
Arithmetic == Operators \ {"%"}
Depth1 == {BinaryOp(op, a, b) : op \in Arithmetic, a \in Literals, b \in Literals}
Depth2 ==
    {BinaryOp(op, a, b) : op \in Operators,
                          a \in Literals \cup Depth1 \cup {ID("n")},
                          b \in Literals \cup Depth1}
ConstExprs == Literals \cup OtherLeaves \cup Depth2

\* function declarators: an absent parameter list, (void), and up to
\* MaxParams parameters
ParamDecls ==
    {Decl("a", Ident("int")), Typename(PtrDecl(Ident("char"))),
     Decl("n", Ident("uint16_t"))}
ReturnDecls == {Ident("int"), Ident("void"), PtrDecl(Ident("char"))}
VoidParams == <<Typename(Ident("void"))>>
FuncDecls ==
    {FuncDecl(FALSE, <<>>, r) : r \in ReturnDecls}
    \cup {FuncDecl(TRUE, ps, r) :
            ps \in {VoidParams} \cup SeqsUpTo(ParamDecls, MaxParams),
            r \in ReturnDecls}

\* struct declarations with a tag, whose fields may point back to the tag
FieldDecls(tag) ==
    {Decl("next", PtrDecl(StructRef(tag))), Decl("val", Ident("int")),
     Decl("prev", PtrDecl(StructRef(tag))),
     Decl("link", PtrDecl(PtrDecl(StructRef(tag)))),
     Decl("other", PtrDecl(StructRef("Other")))}
DistinctNames(ds) ==
    \A j, k \in 1..Len(ds) : j # k => ds[j].name # ds[k].name
StructDecls ==
    {TypeDecl(Struct("Node", TRUE, fs)) :
        fs \in {q \in SeqsUpTo(FieldDecls("Node"), MaxFields) : DistinctNames(q)}}

Declarators == FuncDecls \cup StructDecls

\* the declarations the type objects of the main specification are built from
NodeDecl ==
    TypeDecl(Struct("Node", TRUE,
        <<Decl("next", PtrDecl(StructRef("Node"))), Decl("val", Ident("int"))>>))
BuildDecls ==
    {NodeDecl,
     \* struct P { uint16_t a; char b[0]; char c[2]; uint16_t d; }
     TypeDecl(Struct("P", TRUE,
        <<Decl("a", Ident("uint16_t")),
          Decl("b", ArrayDecl(Ident("char"), Constant("dec", 0))),
          Decl("c", ArrayDecl(Ident("char"), Constant("dec", 2))),
          Decl("d", Ident("uint16_t"))>>)),
     \* struct V { uint16_t a[0-1]; char c; long l; }
     TypeDecl(Struct("V", TRUE,
        <<Decl("a", ArrayDecl(Ident("uint16_t"),
                BinaryOp("-", Constant("dec", 0), Constant("dec", 1)))),
          Decl("c", Ident("char")), Decl("l", Ident("long"))>>)),
     \* struct { void v; }
     TypeDecl(Struct("", TRUE, <<Decl("v", Ident("void"))>>)),
     \* union { char c; uint16_t w; }  and  union U
     TypeDecl(Union("", TRUE,
        <<Decl("c", Ident("char")), Decl("w", Ident("uint16_t"))>>)),
     TypeDecl(Union("U", FALSE, <<>>)),
     \* int f(char *)  and  int [2]
     FuncDecl(TRUE, <<Typename(PtrDecl(Ident("char")))>>, Ident("int")),
     ArrayDecl(Ident("int"), Constant("dec", 2))}

\* the objects handed to a constructor called directly
Operands == {ALL_TYPES["void"], ALL_TYPES["char"], Len(heap)}
Constructed ==
    {SimTypeTop(None), SimTypeTop(Some(4))}
    \cup {SimTypeArray(e, n) : e \in Operands, n \in {None, Some(2)}}
    \cup {SimTypeFixedSizeArray(e, 2) : e \in Operands}
    \cup {SimTypePointer(e) : e \in Operands}
    \cup {SimStruct(<< <<"a", e>> >>, Some("s")) : e \in Operands}
    \cup {SimStruct(<< <<"a", e>>, <<"b", f>> >>, Some("s")) :
            e \in Operands, f \in Operands}
    \cup {SimUnion(<< <<"a", e>> >>) : e \in Operands}

-----------------------------------------------------------------------------
(* The calls a client makes.                                               *)

Call(op, decl, target, arch, ret, exc, warned) ==
    [op |-> op, decl |-> decl, target |-> target, arch |-> arch, ret |-> ret,
     exc |-> exc, warned |-> warned]

\* parse_type(text), decl being the declarator the text parses to
ParseType(decl) ==
    /\ nops < MaxOps
    /\ LET r == parse_type(heap, ALL_TYPES, decl)
       IN  /\ heap' = r.heap
           /\ last' = Call("parse_type", decl, 0, NoArch, r.ret, r.exc, r.warned)
    /\ nops' = nops + 1
    /\ UNCHANGED <<ALL_TYPES, input>>

\* heap[i].with_arch(arch)
WithArch(i, arch) ==
    /\ nops < MaxOps
    /\ LET r == with_arch(heap, i, arch, 1)
       IN  /\ heap' = r.heap
           /\ last' = Call("with_arch", NoNode, i, arch, r.ret, r.exc, FALSE)
    /\ nops' = nops + 1
    /\ UNCHANGED <<ALL_TYPES, input>>

\* a constructor called directly: o is the object it makes
Construct(o) ==
    /\ nops < MaxOps
    /\ heap' = Alloc(heap, o)
    /\ last' = Call("construct", NoNode, 0, NoArch, Len(heap) + 1, "", FALSE)
    /\ nops' = nops + 1
    /\ UNCHANGED <<ALL_TYPES, input>>

\* parse_type on the waiting declarator
ParseInput ==
    /\ input # Consumed
    /\ LET r == parse_type(heap, ALL_TYPES, input)
       IN  /\ heap' = r.heap
           /\ last' = Call("parse_type", input, 0, NoArch, r.ret, r.exc, r.warned)
    /\ input' = Consumed
    /\ UNCHANGED <<ALL_TYPES, nops>>

\* parse_type on an array of elem whose dimension is the waiting expression
ParseArray(elem) ==
    /\ input # Consumed
    /\ LET decl == ArrayDecl(Ident(elem), input)
           r == parse_type(heap, ALL_TYPES, decl)
       IN  /\ heap' = r.heap
           /\ last' = Call("parse_type", decl, 0, NoArch, r.ret, r.exc, r.warned)
    /\ input' = Consumed
    /\ UNCHANGED <<ALL_TYPES, nops>>

\* _parse_const on the waiting expression
Fold ==
    /\ input # Consumed
    /\ LET c == _parse_const(input)
       IN  last' = Call("_parse_const", input, 0, NoArch, c.n, c.exc, FALSE)
    /\ input' = Consumed
    /\ UNCHANGED <<heap, ALL_TYPES, nops>>

Next ==
    \/ \E decl \in BuildDecls : ParseType(decl)
    \/ \E o \in Constructed : Construct(o)
    \/ \E i \in Ids(heap), arch \in Archs : WithArch(i, arch)

Spec == Init /\ [][Next]_vars

\* the resolver on one declarator
InitDecl ==
    /\ heap = Imported.heap
    /\ ALL_TYPES = Imported.ALL_TYPES
    /\ last = NoCall
    /\ nops = 0
    /\ input \in Declarators

NextDecl == ParseInput

SpecDecl == InitDecl /\ [][NextDecl]_vars

\* the constant folder, alone and under an array declarator
InitFold ==
    /\ heap = Imported.heap
    /\ ALL_TYPES = Imported.ALL_TYPES
    /\ last = NoCall
    /\ nops = 0
    /\ input \in ConstExprs

NextFold ==
    \/ Fold
    \/ \E elem \in {"int", "void"} : ParseArray(elem)

SpecFold == InitFold /\ [][NextFold]_vars

\* bare type references: a type name of one or more words, and a struct tag
\* without a body
BareRefs ==
    {Ident(n) : n \in {"int", "uint16_t", "example", "foo", "T"}}
    \cup {Words(<<"unsigned", "short">>), Words(<<"long", "double">>)}
    \cup {StructRef(t) : t \in {"example", "foo"}}

\* the scopes a reference is resolved in: what typedefs and struct tags met
\* earlier in the same text have left in extra_types
Scopes ==
    {EmptyDict,
     Put(EmptyDict, "foo", ALL_TYPES["char"]),
     Put(EmptyDict, "int", ALL_TYPES["char"]),
     Put(Put(EmptyDict, "struct foo", ALL_TYPES["example"]),
         "T", ALL_TYPES["void"])}

\* _decl_to_type(decl, extra_types) called with the scope et
Resolve(et, decl) ==
    /\ nops < MaxOps
    /\ LET r == _decl_to_type(heap, ALL_TYPES, et, decl)
       IN  /\ heap' = r.heap
           /\ last' = [op |-> "_decl_to_type", decl |-> decl, target |-> 0,
                       arch |-> NoArch, ret |-> r.ret, exc |-> r.exc,
                       warned |-> r.warned, et |-> et]
    /\ nops' = nops + 1
    /\ UNCHANGED <<ALL_TYPES, input>>

NextScope == \E et \in Scopes, decl \in BareRefs : Resolve(et, decl)

\* the resolver on bare references in a scope
SpecScope == Init /\ [][NextScope]_vars

-----------------------------------------------------------------------------
(* The registry and the calls that write it.                               *)

\* a registration that keeps the entry a name already has
register_types_KeepFirst(reg, mapping) ==
    [x \in DOMAIN reg \cup DOMAIN mapping |->
        IF x \in DOMAIN reg THEN reg[x] ELSE mapping[x]]

\* ALL_TYPES.update(mapping)
register_types(reg, mapping) ==
    [x \in DOMAIN reg \cup DOMAIN mapping |->
        IF x \in DOMAIN mapping THEN mapping[x] ELSE reg[x]]

\* the mappings handed to register_types: one or two names, new or already
\* registered, each with an object that exists
RegisteredNames == {"uint16_t", "int", "T"}
Mappings ==
    LET objs == {ALL_TYPES["char"], ALL_TYPES["example"], Len(heap)}
    IN  {Put(EmptyDict, n, o) : n \in RegisteredNames, o \in objs}
        \cup {Put(Put(EmptyDict, "uint16_t", o), "T", o) : o \in objs}

\* the struct declarations handed to define_struct
\* struct example { char c; },  struct Node { struct Node *next; int val; },
\* struct S { uint16_t a; int *p; }
StructDefns ==
    {TypeDecl(Struct("example", TRUE, <<Decl("c", Ident("char"))>>)),
     NodeDecl,
     TypeDecl(Struct("S", TRUE,
        <<Decl("a", Ident("uint16_t")), Decl("p", PtrDecl(Ident("int")))>>))}

\* register_types(mapping)
RegisterTypes(mapping) ==
    /\ nops < MaxOps
    /\ ALL_TYPES' = register_types(ALL_TYPES, mapping)
    /\ last' = [op |-> "register_types", decl |-> NoNode, target |-> 0,
                arch |-> NoArch, ret |-> 0, exc |-> "", warned |-> FALSE,
                mapping |-> mapping]
    /\ nops' = nops + 1
    /\ UNCHANGED <<heap, input>>

\* define_struct(text), decl being the declarator the text parses to
DefineStruct(decl) ==
    /\ nops < MaxOps
    /\ LET r == define_struct(heap, ALL_TYPES, decl)
       IN  /\ heap' = r.heap
           /\ ALL_TYPES' = r.ALL_TYPES
           /\ last' = Call("define_struct", decl, 0, NoArch, r.ret, r.exc, FALSE)
    /\ nops' = nops + 1
    /\ UNCHANGED input

\* the texts handed to parse_type:
\*   uint16_t    int *    T    example    struct example    struct S
\*   int x; typedef char        int x; char        int x; typedef x
\*   int x; char y; typedef char *
TypeTexts ==
    {<<Decl("", Ident("uint16_t"))>>,
     <<Decl("", PtrDecl(Ident("int")))>>,
     <<Decl("", Ident("T"))>>,
     <<Decl("", Ident("example"))>>,
     <<Decl("", StructRef("example"))>>,
     <<Decl("", StructRef("S"))>>,
     <<Decl("x", Ident("int")), Typedef("", Ident("char"))>>,
     <<Decl("x", Ident("int")), Decl("", Ident("char"))>>,
     <<Decl("x", Ident("int")), Typedef("", Ident("x"))>>,
     <<Decl("x", Ident("int")), Decl("y", Ident("char")),
       Typedef("", PtrDecl(Ident("char")))>>}

\* the texts handed to parse_file:
\*   int v;    uint16_t v;    size_t v; T w;    example v;    struct example v;
\*   struct S *v;    typedef int t; t v;    typedef char uint16_t; uint16_t v;
\*   int f() {}
FileTexts ==
    {<<Decl("v", Ident("int"))>>,
     <<Decl("v", Ident("uint16_t"))>>,
     <<Decl("v", Ident("size_t")), Decl("w", Ident("T"))>>,
     <<Decl("v", Ident("example"))>>,
     <<Decl("v", StructRef("example"))>>,
     <<Decl("v", PtrDecl(StructRef("S")))>>,
     <<Typedef("t", Ident("int")), Decl("v", Ident("t"))>>,
     <<Typedef("uint16_t", Ident("char")), Decl("v", Ident("uint16_t"))>>,
     <<FuncDef("f", FuncDecl(FALSE, <<>>, Ident("int")))>>}

\* parse_type(defn)
ParseTypeText(defn) ==
    /\ nops < MaxOps
    /\ LET r == parse_type_text(heap, ALL_TYPES, defn)
       IN  /\ heap' = r.heap
           /\ last' = [op |-> "parse_type", decl |-> defn[Len(defn)].kids[1],
                       target |-> 0, arch |-> NoArch, ret |-> r.ret,
                       exc |-> r.exc, warned |-> r.warned, defn |-> defn]
    /\ nops' = nops + 1
    /\ UNCHANGED <<ALL_TYPES, input>>

\* parse_file(defn)
ParseFile(defn) ==
    /\ nops < MaxOps
    /\ LET r == parse_file(heap, ALL_TYPES, defn)
       IN  /\ heap' = r.heap
           /\ last' = [op |-> "parse_file", decl |-> NoNode, target |-> 0,
                       arch |-> NoArch, ret |-> r.ret, exc |-> r.exc,
                       warned |-> FALSE, defn |-> defn]
    /\ nops' = nops + 1
    /\ UNCHANGED <<ALL_TYPES, input>>

NextRegistry ==
    \/ \E mapping \in Mappings : RegisterTypes(mapping)
    \/ \E decl \in StructDefns : DefineStruct(decl)
    \/ \E defn \in TypeTexts : ParseTypeText(defn)
    \/ \E defn \in FileTexts : ParseFile(defn)

\* the registry under the calls that write it and the calls that read it
SpecRegistry == Init /\ [][NextRegistry]_vars

-----------------------------------------------------------------------------
(* Struct layout.                                                          *)

Structs(h) == {i \in Ids(h) : h[i].cls = "SimStruct"}

\* every field of struct i has a size
AllSized(h, i) ==
    \A k \in 1..Len(h[i].fields) : IsInt(Size(h, h[i].fields[k][2]))

FieldSize(h, i, k) == Size(h, h[i].fields[k][2]).n
Offset(h, i, k) == offsets(h, i).map[k][2]

RECURSIVE SumOfSizes(_, _, _)
SumOfSizes(h, i, k) ==
    IF k = 0 THEN 0 ELSE SumOfSizes(h, i, k - 1) + FieldSize(h, i, k)

-----------------------------------------------------------------------------
(* Self-referential structs.                                               *)

\* the object field name of struct i refers to
FieldRef(h, i, name) ==
    LET k == CHOOSE k \in 1..Len(h[i].fields) : h[i].fields[k][1] = name
    IN  h[i].fields[k][2]

\* decl declares a struct with a tag and a body
IsTaggedStructDecl(decl) ==
    /\ decl.k = "TypeDecl"
    /\ decl.kids[1].k = "Struct"
    /\ decl.kids[1].name # ""
    /\ decl.kids[1].val = 1

\* the fields of the struct declaration decl that are pointers to its own tag
SelfPointers(decl) ==
    {f \in {decl.kids[1].kids[k] : k \in 1..Len(decl.kids[1].kids)} :
        f.kids[1] = PtrDecl(StructRef(decl.kids[1].name))}

\* C2: the struct parse_type returns for a declaration of struct T has, in
\* every field declared as a pointer to struct T, a pointer whose pts_to is
\* that very struct object.
C2_SelfReferenceIdentity ==
    (last.op = "parse_type" /\ last.exc = "" /\ IsTaggedStructDecl(last.decl)) =>
        /\ heap[last.ret].cls = "SimStruct"
        /\ \A f \in SelfPointers(last.decl) :
              LET p == FieldRef(heap, last.ret, f.name)
              IN  /\ heap[p].cls = "SimTypePointer"
                  /\ heap[p].pts_to = last.ret

\* a struct with a pointer to itself and another field has been resolved
C2_Witness ==
    /\ last.op = "parse_type"
    /\ last.exc = ""
    /\ IsTaggedStructDecl(last.decl)
    /\ SelfPointers(last.decl) # {}
    /\ Len(heap[last.ret].fields) >= 2

\* object i is a struct Node { struct Node *next; int val; } as resolved
IsNode(h, i) ==
    /\ h[i].cls = "SimStruct"
    /\ h[i]._name = "Node"
    /\ Len(h[i].fields) = 2
    /\ h[i].fields[1][1] = "next"
    /\ h[h[i].fields[1][2]].cls = "SimTypePointer"
    /\ h[h[i].fields[1][2]].pts_to = i
    /\ h[i].fields[2] = <<"val", ALL_TYPES["int"]>>

\* C3: with_arch on the self-referential struct Node returns, and the size
\* of what it returns is the pointer width plus the size of int.
C3_BindNodeTerminates ==
    (last.op = "with_arch" /\ IsNode(heap, last.target)) =>
        /\ last.exc = ""
        /\ Size(heap, last.ret)
              = IntV(ArchBits(last.arch) + ArchSizeof(last.arch, "int"))

-----------------------------------------------------------------------------
(* Binding.                                                                *)

\* C4: a with_arch call leaves every object that existed before it, and the
\* registry, as they were; what it binds is made anew.
C4_BindNonMutating ==
    [][last'.op = "with_arch" =>
          /\ Len(heap') >= Len(heap)
          /\ \A i \in Ids(heap) : heap'[i] = heap[i]
          /\ ALL_TYPES' = ALL_TYPES]_vars

\* a struct with unbound fields has been bound: the call returned a new
\* object carrying the architecture
C4_Witness ==
    /\ last.op = "with_arch"
    /\ last.exc = ""
    /\ last.ret # last.target
    /\ heap[last.target].cls = "SimStruct"
    /\ heap[last.target].fields # <<>>
    /\ heap[last.ret]._arch = last.arch

-----------------------------------------------------------------------------
(* Equality.                                                               *)

RECURSIVE SameDeclaredFields(_, _, _, _)

\* the pairs of two sequences of <<name, reference>> agree in name and in
\* the declared fields of what they refer to
SamePairs(h, xs, ys, depth) ==
    /\ Len(xs) = Len(ys)
    /\ \A k \in 1..Len(xs) :
          /\ xs[k][1] = ys[k][1]
          /\ SameDeclaredFields(h, xs[k][2], ys[k][2], depth + 1)

\* objects i and j of one class agree on the fields their variant declares,
\* whatever their architecture; the comparison of a cyclic type stops at
\* depth RecursionLimit
SameDeclaredFields(h, i, j, depth) ==
    \/ i = j
    \/ depth > RecursionLimit
    \/ /\ h[i].cls = h[j].cls
       /\ h[i]._size = h[j]._size
       /\ h[i].signed = h[j].signed
       /\ h[i].length = h[j].length
       /\ h[i]._name = h[j]._name
       /\ (h[i].pts_to # 0 =>
              SameDeclaredFields(h, h[i].pts_to, h[j].pts_to, depth + 1))
       /\ (h[i].elem_type # 0 =>
              SameDeclaredFields(h, h[i].elem_type, h[j].elem_type, depth + 1))
       /\ (h[i].returnty # 0 =>
              SameDeclaredFields(h, h[i].returnty, h[j].returnty, depth + 1))
       /\ SamePairs(h, AsItems(h[i].args), AsItems(h[j].args), depth)
       /\ SamePairs(h, h[i].fields, h[j].fields, depth)
       /\ SamePairs(h, h[i].members, h[j].members, depth)

\* C5: two objects of one class compare equal exactly when their declared
\* fields are pairwise equal, the comparison always giving True or False,
\* and an object compares equal to what with_arch returns for it.
C5_StructuralEquality ==
    /\ \A i, j \in Ids(heap) :
          heap[i].cls = heap[j].cls =>
              Eq(heap, i, j) = Bool(SameDeclaredFields(heap, i, j, 1))
    /\ (last.op = "with_arch" /\ last.exc = "") =>
          Eq(heap, last.target, last.ret) = "True"

-----------------------------------------------------------------------------
(* Sizes.                                                                  *)

\* C6: the size of every object is an integer or the query raises
\* ValueError, the error of a size that is not defined.
C6_SizeTotal ==
    \A i \in Ids(heap) : Size(heap, i).k \in {"int", "ValueError"}

\* C7: a bound SimTypePointer and a bound SimTypeArray have the pointer
\* width of their architecture as size, whatever they point to and whatever
\* the length; unbound, the size query raises ValueError; a
\* SimTypeFixedSizeArray whose element has a size has that size times its
\* length.
C7_PointerAndArraySize ==
    \A i \in Ids(heap) :
        /\ heap[i].cls \in {"SimTypePointer", "SimTypeArray"} =>
              Size(heap, i) = IF heap[i]._arch = NoArch
                              THEN Raise("ValueError")
                              ELSE IntV(ArchBits(heap[i]._arch))
        /\ (/\ heap[i].cls = "SimTypeFixedSizeArray"
            /\ IsInt(Size(heap, heap[i].elem_type))) =>
              Size(heap, i) = IntV(Size(heap, heap[i].elem_type).n
                                   * heap[i].length[1])

\* a SimTypeArray of known length over a pointer has been bound, its element
\* with it
C7_Witness ==
    /\ last.op = "with_arch"
    /\ last.exc = ""
    /\ heap[last.ret].cls = "SimTypeArray"
    /\ heap[last.ret]._arch = last.arch
    /\ heap[last.ret].length = Some(2)
    /\ heap[heap[last.ret].elem_type].cls = "SimTypePointer"
    /\ heap[heap[last.ret].elem_type]._arch = last.arch

-----------------------------------------------------------------------------
(* The constant folder and array dimensions.                               *)

RECURSIVE IsArithmetic(_)
\* a tree of decimal literals and binary + - * /
IsArithmetic(e) ==
    \/ e.k = "Constant" /\ e.name = "dec"
    \/ /\ e.k = "BinaryOp"
       /\ e.name \in {"+", "-", "*", "/"}
       /\ IsArithmetic(e.kids[1])
       /\ IsArithmetic(e.kids[2])

Abs(n) == IF n < 0 THEN -n ELSE n
\* the quotient truncated toward zero, b # 0
TruncDiv(a, b) ==
    IF (a < 0) = (b < 0) THEN Abs(a) \div Abs(b) ELSE -(Abs(a) \div Abs(b))

RECURSIVE TruncEval(_)
\* the value of an arithmetic tree, a quotient by 0 counting as 0
TruncEval(e) ==
    IF e.k = "Constant" THEN e.val
    ELSE LET x == TruncEval(e.kids[1])
             y == TruncEval(e.kids[2])
         IN  CASE e.name = "+" -> x + y
               [] e.name = "-" -> x - y
               [] e.name = "*" -> x * y
               [] e.name = "/" -> IF y = 0 THEN 0 ELSE TruncDiv(x, y)

RECURSIVE DividesByZero(_)
DividesByZero(e) ==
    /\ e.k = "BinaryOp"
    /\ \/ DividesByZero(e.kids[1])
       \/ DividesByZero(e.kids[2])
       \/ e.name = "/" /\ TruncEval(e.kids[2]) = 0

\* C8: _parse_const returns, for a tree of integer literals and + - * / that
\* never divides by 0, its value under division truncating toward zero, and
\* raises ValueError for every expression of another shape.
C8_FoldTruncates ==
    last.op = "_parse_const" =>
        IF IsArithmetic(last.decl)
        THEN ~DividesByZero(last.decl) =>
                 last.exc = "" /\ last.ret = TruncEval(last.decl)
        ELSE last.exc = "ValueError"

\* C9: resolving an array declarator whose element type resolves never
\* fails: it gives a SimTypeFixedSizeArray of that element whose length is
\* the folded dimension, or 0 with a warning when the folder gives no value.
C9_ArrayDimFallback ==
    (last.op = "parse_type" /\ last.decl.k = "ArrayDecl") =>
        LET c == _parse_const(last.decl.kids[2])
            elem == parse_type(heap, ALL_TYPES, last.decl.kids[1])
        IN  elem.exc = "" =>
                /\ last.exc = ""
                /\ heap[last.ret].cls = "SimTypeFixedSizeArray"
                /\ heap[last.ret].elem_type = elem.ret
                /\ heap[last.ret].length = Some(IF c.exc = "" THEN c.n ELSE 0)
                /\ last.warned <=> c.exc # ""

-----------------------------------------------------------------------------
(* Function declarators.                                                   *)

RECURSIVE Denotes(_, _, _)
\* object ref is what the declarator decl, made of pointers around a
\* registry name, resolves to
Denotes(h, ref, decl) ==
    CASE decl.k = "TypeDecl" -> Denotes(h, ref, decl.kids[1])
      [] decl.k = "PtrDecl" ->
           h[ref].cls = "SimTypePointer" /\ Denotes(h, h[ref].pts_to, decl.kids[1])
      [] decl.k = "IdentifierType" -> ref = ALL_TYPES[Join(decl.kids)]
      [] OTHER -> FALSE

\* C10: a function declarator with no parameter list or with the parameter
\* list (void) resolves to a SimTypeFunction without arguments; with k
\* other parameters, to one with their k types in order; its return type is
\* the resolved return declarator.
C10_FunctionArgs ==
    (last.op = "parse_type" /\ last.decl.k = "FuncDecl") =>
        LET ps == FuncParams(last.decl)
            f == heap[last.ret]
        IN  /\ last.exc = ""
            /\ f.cls = "SimTypeFunction"
            /\ Denotes(heap, f.returnty, last.decl.kids[1])
            /\ IF last.decl.val = 0 \/ ps = VoidParams
               THEN f.args = <<>>
               ELSE /\ Len(f.args) = Len(ps)
                    /\ \A k \in 1..Len(ps) :
                          Denotes(heap, f.args[k], ps[k].kids[1])

-----------------------------------------------------------------------------
(* Bare references.                                                        *)

\* the failure that names the identifier id as it was written
UnknownType(id) == "TypeError: Unknown type '" \o id \o "'"

\* C11: a bare type name resolves to what the scope holds under it, else to
\* what ALL_TYPES holds under it, and fails with a TypeError naming exactly
\* that name, nothing being returned, when neither holds it; a struct tag
\* without a body does the same, the registry holding a struct under its
\* tag.
C11_UnknownIdentifier ==
    last.op = "_decl_to_type" =>
        LET ref == last.decl.kids[1]
            key == IF ref.k = "Struct" THEN "struct " \o ref.name
                   ELSE Join(ref.kids)
            regKeys == IF ref.k = "Struct" THEN {key, ref.name} ELSE {key}
        IN  CASE key \in DOMAIN last.et ->
                   last.exc = "" /\ last.ret = last.et[key]
              [] regKeys \cap DOMAIN ALL_TYPES # {} ->
                   /\ last.exc = ""
                   /\ \E k \in regKeys \cap DOMAIN ALL_TYPES :
                         last.ret = ALL_TYPES[k]
              [] OTHER ->
                   /\ last.exc \in {UnknownType(k) : k \in regKeys}
                   /\ last.ret = 0

-----------------------------------------------------------------------------
(* Registration.                                                           *)

\* the object the resolver finds under a type name outside any scope, 0 when
\* it finds none
Lookup(h, reg, name) ==
    LET r == _decl_to_type(h, reg, EmptyDict, Ident(name))
    IN  IF r.exc = "" THEN r.ret ELSE 0

\* the type names of the model
TypeNames == DOMAIN ALL_TYPES \cup RegisteredNames \cup {"foo"}

\* what a step of the registry's clients does to lookups and objects
RegistrationStep ==
    /\ last'.op = "register_types" =>
          /\ last'.exc = ""
          /\ \A n \in DOMAIN last'.mapping :
                Lookup(heap', ALL_TYPES', n) = last'.mapping[n]
          /\ \A n \in TypeNames \ DOMAIN last'.mapping :
                Lookup(heap', ALL_TYPES', n) = Lookup(heap, ALL_TYPES, n)
          /\ heap' = heap
    /\ last'.op = "define_struct" =>
          /\ \A i \in Ids(heap) : heap'[i] = heap[i]
          /\ \A n \in TypeNames :
                \/ Lookup(heap', ALL_TYPES', n) = Lookup(heap, ALL_TYPES, n)
                \/ /\ last'.exc = ""
                   /\ n = heap'[last'.ret]._name
                   /\ Lookup(heap', ALL_TYPES', n) = last'.ret
    /\ last'.op \notin {"register_types", "define_struct"} =>
          ALL_TYPES' = ALL_TYPES

\* C12: a register_types call makes every name of its mapping resolve to the
\* object the mapping gives it, redefinition raising nothing, leaves what
\* every other name resolves to and leaves every object as it was; a
\* define_struct call changes what the struct's name resolves to and nothing
\* else of the registry, and leaves every object that existed as it was.
C12_LastWriteWins == [][RegistrationStep]_vars

\* uint16_t has been registered anew after a struct with a uint16_t field
\* was defined: the field still refers to the object registered before
C12_Witness ==
    /\ last.op = "register_types"
    /\ "uint16_t" \in DOMAIN last.mapping
    /\ \E i \in Structs(heap) :
          /\ heap[i]._name = "S"
          /\ heap[heap[i].fields[1][2]].cls = "SimTypeNum"
          /\ heap[i].fields[1][2] # Lookup(heap, ALL_TYPES, "uint16_t")

-----------------------------------------------------------------------------
(* The entry points on texts.                                              *)

\* what a parse_type step does when the claim of a single typedef holds
SingleTypedefStep ==
    (last'.op = "parse_type" /\ "defn" \in DOMAIN last') =>
        IF Len(last'.defn) = 1
        THEN last'.exc # "ParseError" =>
                 LET r == _decl_to_type(heap, ALL_TYPES, EmptyDict,
                                        last'.defn[1].kids[1])
                 IN  /\ last'.exc = r.exc
                     /\ last'.ret = r.ret
                     /\ heap' = r.heap
        ELSE last'.exc # "" /\ last'.ret = 0 /\ heap' = heap

\* C13: parse_type on a text of one declaration that the parser accepts
\* returns what the resolver gives for that declaration as the typedef
\* QQQQ; on a text that brings further declarations or typedefs of its own
\* it fails and returns nothing.
C13_SingleTypedef == [][SingleTypedefStep]_vars

\* the tags under which the registry holds a struct of that name, as
\* define_struct leaves it
DefinedTags ==
    {t \in DOMAIN ALL_TYPES :
        /\ heap[ALL_TYPES[t]].cls = "SimStruct"
        /\ heap[ALL_TYPES[t]]._name = t}

\* the declarator is the type name t or the reference struct t
RefersTo(decl, t) == decl \in {Ident(t), StructRef(t)}

\* C14: parse_type on a text that is the name of a defined struct, or a
\* reference to its tag without a body, returns the registered struct, and
\* parse_file on a declaration of a variable of such a type maps the
\* variable to the registered struct.
C14_DefinedStructVisible ==
    \A t \in DefinedTags :
        /\ (/\ last.op = "parse_type"
            /\ "defn" \in DOMAIN last
            /\ Len(last.defn) = 1
            /\ RefersTo(last.defn[1].kids[1], t)) =>
              last.exc = "" /\ last.ret = ALL_TYPES[t]
        /\ (/\ last.op = "parse_file"
            /\ Len(last.defn) = 1
            /\ last.defn[1].k = "Decl"
            /\ RefersTo(last.defn[1].kids[1], t)) =>
              /\ last.exc = ""
              /\ last.ret[1][last.defn[1].name] = ALL_TYPES[t]

\* the names the text typedefs
TypedefNames(defn) ==
    {defn[k].name : k \in {k \in 1..Len(defn) : defn[k].k = "Typedef"}}

\* C15: parse_file maps every variable declared with a registry name that
\* the text does not typedef to the object ALL_TYPES holds under that name,
\* the object parse_type returns for the name, and the type mapping it
\* returns holds the typedef names of the text and no other.
C15_EntryPointsAgree ==
    last.op = "parse_file" =>
        /\ \A k \in 1..Len(last.defn) :
              LET d == last.defn[k]
                  names == d.kids[1].kids[1].kids
              IN  (/\ d.k = "Decl"
                   /\ d.kids[1].k = "TypeDecl"
                   /\ d.kids[1].kids[1].k = "IdentifierType"
                   /\ Join(names) \in DOMAIN ALL_TYPES \ TypedefNames(last.defn)) =>
                      /\ last.exc = ""
                      /\ last.ret[1][d.name] = ALL_TYPES[Join(names)]
                      /\ last.ret[1][d.name]
                            = parse_type_text(heap, ALL_TYPES,
                                              <<Decl("", d.kids[1])>>).ret
        /\ last.exc = "" => DOMAIN last.ret[2] = TypedefNames(last.defn)

====
